---------------------------- MODULE Spec2Model ----------------------------
(***************************************************************************)
(* A model of github-status.py: a sequential script that reads a token     *)
(* from the gh helper, resolves the organization filter, issues one REST   *)
(* GET and one GraphQL POST, and prints three tables.                      *)
(*                                                                         *)
(* Python strings are TLA+ strings (\o, Len, SubSeq, Head and Tail act on  *)
(* them); bytes are sequences of integers 0..255.  Timestamps are ISO-8601 *)
(* texts of one format in the program; the model keeps their rank, a       *)
(* natural number of days, whose order is the order of the texts.  The     *)
(* four status icons are written by name: "[check]" is U+2705, "[cross]"   *)
(* is U+274C, "[yellow]" is U+1F7E1 and "[question]" is U+2754.            *)
(***************************************************************************)
EXTENDS Integers, Sequences, FiniteSets, TLC

VARIABLES
    pc,              \* the statement of __main__ the script is at
    argv,            \* sys.argv[1:], the command line
    procs,           \* the gh helper runs so far: [argv, returncode, stdout]
    GITHUB_TOKEN,    \* line 239
    args,            \* the parsed command line: [org, auto_org]
    orgs,            \* line 249: the organization filter, a list
    requests,        \* the HTTP requests issued so far, in order
    notifications,   \* line 257: the decoded body of GET /notifications
    open_prs_query,  \* line 259
    assigned_query,  \* line 260
    graphql_result,  \* line 269: the 'data' member of the GraphQL response
    user_id,         \* line 272
    stdout,          \* the tables printed so far, in order
    exc              \* the exception that ended the run, or None

vars == <<pc, argv, procs, GITHUB_TOKEN, args, orgs, requests, notifications,
          open_prs_query, assigned_query, graphql_result, user_id, stdout, exc>>

\* Python None and JSON null where an object is expected, and the value of a
\* name the script has not assigned yet
None == [type |-> "NoneType"]
\* JSON null in a field that otherwise holds a string
null == "null"

-----------------------------------------------------------------------------
(* Python built-ins the script uses *)

\* s[i:] and s[:i] of a str, 0-based as in Python
StrFrom(s, i) == SubSeq(s, i + 1, Len(s))
StrTo(s, i) == SubSeq(s, 1, i)

startswith(s, prefix) ==
    Len(prefix) <= Len(s) /\ StrTo(s, Len(prefix)) = prefix

\* sub in s
RECURSIVE str_contains(_, _)
str_contains(s, sub) ==
    IF Len(s) < Len(sub) THEN FALSE
    ELSE startswith(s, sub) \/ str_contains(Tail(s), sub)

\* str.replace(old, new): every non-overlapping occurrence, left to right
RECURSIVE str_replace(_, _, _)
str_replace(s, old, new) ==
    IF Len(s) < Len(old) THEN s
    ELSE IF startswith(s, old)
         THEN new \o str_replace(StrFrom(s, Len(old)), old, new)
         ELSE Head(s) \o str_replace(Tail(s), old, new)

Whitespace == {" ", "\n", "\t", "\r"}

RECURSIVE str_lstrip(_)
str_lstrip(s) ==
    IF Len(s) > 0 /\ Head(s) \in Whitespace THEN str_lstrip(Tail(s)) ELSE s

RECURSIVE str_rstrip(_)
str_rstrip(s) ==
    IF Len(s) > 0 /\ SubSeq(s, Len(s), Len(s)) \in Whitespace
    THEN str_rstrip(StrTo(s, Len(s) - 1))
    ELSE s

\* str.strip()
str_strip(s) == str_lstrip(str_rstrip(s))

\* str.rstrip('=')
RECURSIVE rstrip_eq(_)
rstrip_eq(s) ==
    IF Len(s) > 0 /\ SubSeq(s, Len(s), Len(s)) = "="
    THEN rstrip_eq(StrTo(s, Len(s) - 1))
    ELSE s

Digits == <<"0", "1", "2", "3", "4", "5", "6", "7", "8", "9">>

\* str(n) of an int, as an f-string formats it
RECURSIVE NatStr(_)
NatStr(n) == IF n < 10 THEN Digits[n + 1] ELSE NatStr(n \div 10) \o Digits[(n % 10) + 1]

IntStr(n) == IF n < 0 THEN "-" \o NatStr(-n) ELSE NatStr(n)

\* ord(c) of the characters of the texts that are encoded to bytes
ord(c) ==
    CASE c = "-" -> 45
      [] c = "0" -> 48  [] c = "1" -> 49  [] c = "2" -> 50  [] c = "3" -> 51
      [] c = "4" -> 52  [] c = "5" -> 53  [] c = "6" -> 54  [] c = "7" -> 55
      [] c = "8" -> 56  [] c = "9" -> 57  [] c = ":" -> 58

\* str.encode(): the UTF-8 bytes of an ASCII text
RECURSIVE str_encode(_)
str_encode(s) == IF Len(s) = 0 THEN <<>> ELSE <<ord(Head(s))>> \o str_encode(Tail(s))

B64Alphabet ==
    <<"A", "B", "C", "D", "E", "F", "G", "H", "I", "J", "K", "L", "M",
      "N", "O", "P", "Q", "R", "S", "T", "U", "V", "W", "X", "Y", "Z",
      "a", "b", "c", "d", "e", "f", "g", "h", "i", "j", "k", "l", "m",
      "n", "o", "p", "q", "r", "s", "t", "u", "v", "w", "x", "y", "z",
      "0", "1", "2", "3", "4", "5", "6", "7", "8", "9", "+", "/">>

\* base64.b64encode(b).decode(): 3 bytes to 4 characters, '=' padding
RECURSIVE b64encode(_)
b64encode(b) ==
    IF Len(b) = 0 THEN ""
    ELSE IF Len(b) = 1 THEN
        B64Alphabet[(b[1] \div 4) + 1] \o B64Alphabet[((b[1] % 4) * 16) + 1] \o "=="
    ELSE IF Len(b) = 2 THEN
        B64Alphabet[(b[1] \div 4) + 1]
        \o B64Alphabet[((b[1] % 4) * 16 + (b[2] \div 16)) + 1]
        \o B64Alphabet[((b[2] % 16) * 4) + 1] \o "="
    ELSE
        B64Alphabet[(b[1] \div 4) + 1]
        \o B64Alphabet[((b[1] % 4) * 16 + (b[2] \div 16)) + 1]
        \o B64Alphabet[((b[2] % 16) * 4 + (b[3] \div 64)) + 1]
        \o B64Alphabet[(b[3] % 64) + 1]
        \o b64encode(SubSeq(b, 4, Len(b)))


-----------------------------------------------------------------------------
(* list.sort(key=...): a stable sort.  Keys are tuples of integers (a     *)
(* bool counts as 0 or 1), compared as Python compares tuples.            *)

RECURSIVE KeyLess(_, _)
KeyLess(a, b) ==
    IF Len(a) = 0 \/ Len(b) = 0 THEN Len(a) < Len(b)
    ELSE IF Head(a) # Head(b) THEN Head(a) < Head(b)
    ELSE KeyLess(Tail(a), Tail(b))

\* index i goes after every index already placed whose key is not greater
RECURSIVE InsertSorted(_, _, _)
InsertSorted(perm, i, keys) ==
    IF Len(perm) = 0 THEN <<i>>
    ELSE IF KeyLess(keys[i], keys[Head(perm)]) THEN <<i>> \o perm
    ELSE <<Head(perm)>> \o InsertSorted(Tail(perm), i, keys)

RECURSIVE SortPerm(_, _)
SortPerm(keys, n) ==
    IF n = 0 THEN <<>> ELSE InsertSorted(SortPerm(keys, n - 1), n, keys)

\* rows.sort(key = ...), keys[i] being the key of rows[i]
list_sort(rows, keys) ==
    LET perm == SortPerm(keys, Len(rows))
    IN  [i \in 1..Len(rows) |-> rows[perm[i]]]

BoolInt(b) == IF b THEN 1 ELSE 0

-----------------------------------------------------------------------------
(* The clock and date_ago *)

\* the latest timestamp rank an API response carries
MaxTime == 2

\* datetime.now(UTC): the run happens after every timestamp it reads
now == MaxTime + 1

\* format_timedelta(parse(date) - now, add_direction=True), in whole days
date_ago(date) ==
    LET delta == date - now
        n == IF delta < 0 THEN -delta ELSE delta
        unit == IF n = 1 THEN " day" ELSE " days"
    IN  IF delta < 0 THEN NatStr(n) \o unit \o " ago"
        ELSE "in " \o NatStr(n) \o unit

-----------------------------------------------------------------------------
(* report_open_prs *)

ICON_CHECK == "[check]"
ICON_CROSS == "[cross]"
ICON_YELLOW == "[yellow]"
ICON_QUESTION == "[question]"

TypeError == [type |-> "TypeError"]

\* line 158: subscripting the null statusCheckRollup raises TypeError
rolledup_raises(row) ==
    row.commits.nodes[1].commit.statusCheckRollup = None

rolledup_status(row) == row.commits.nodes[1].commit.statusCheckRollup.state

\* lines 157-164
ci_status(row) ==
    IF row.mergeable # "MERGEABLE" THEN ICON_CROSS
    ELSE IF rolledup_status(row) = "PENDING" THEN ICON_YELLOW
    ELSE IF rolledup_status(row) # "SUCCESS" THEN ICON_CROSS
    ELSE ICON_CHECK

\* lines 166-168: the value review_status holds when line 169 is reached
review_status_default(row) == IF row.isDraft THEN "" ELSE ICON_QUESTION

\* review_status with the draft test of line 167 made the first arm of the
\* chain: a draft then keeps the empty cell whatever its reviews are
review_status_draft_first(row) ==
    IF row.isDraft THEN ""
    ELSE IF row.reviewDecision = "APPROVED" THEN ICON_CHECK
    ELSE IF Len(row.latestReviews.nodes) = 0
         THEN (IF Len(row.reviewRequests.nodes) # 0 THEN ICON_YELLOW ELSE ICON_QUESTION)
    ELSE IF row.latestReviews.nodes[1].state = "APPROVED" THEN ICON_CHECK
    ELSE IF row.latestReviews.nodes[1].state = "CHANGES_REQUESTED" THEN ICON_CROSS
    ELSE ICON_QUESTION

\* lines 166-182
review_status(row) ==
    IF row.reviewDecision = "APPROVED" THEN ICON_CHECK
    ELSE LET reviews == row.latestReviews.nodes
         IN  IF Len(reviews) = 0
             THEN IF Len(row.reviewRequests.nodes) # 0 THEN ICON_YELLOW
                  ELSE review_status_default(row)
             ELSE IF reviews[1].state = "APPROVED" THEN ICON_CHECK
                  ELSE IF reviews[1].state = "CHANGES_REQUESTED" THEN ICON_CROSS
                  ELSE review_status_default(row)

\* lines 184-193: the cells of one table row
open_pr_table_row(row) ==
    [Repo    |-> row.repository.name,
     Number  |-> [text |-> "#" \o IntStr(row.number),
                  style |-> IF row.isDraft THEN "white" ELSE "green"],
     CI      |-> ci_status(row),
     Review  |-> review_status(row),
     Title   |-> [text |-> row.title, link |-> row.url],
     Branch  |-> row.headRefName,
     Updated |-> date_ago(row.updatedAt)]

\* lines 143-194: the table, or the exception the loop raises at the first
\* row (in sorted order) whose rollup is null
report_open_prs(data) ==
    LET rows == list_sort(data.nodes,
                          [i \in 1..Len(data.nodes) |-> <<data.nodes[i].updatedAt>>])
    IN  IF \E i \in 1..Len(rows) : rolledup_raises(rows[i])
        THEN [exc |-> TypeError, table |-> None]
        ELSE [exc |-> None,
              table |-> [title |-> "Open PRs",
                         rows |-> [i \in 1..Len(rows) |-> open_pr_table_row(rows[i])]]]

-----------------------------------------------------------------------------
(* report_notifications *)

\* line 115: b'\x93\x00\xCE\x00\x67\x82\xa6\xb3'
MAGIC_BITS == <<147, 0, 206, 0, 103, 130, 166, 179>>

\* line 131 without the ":" between the two ids
notification_token_no_separator(id, uid) ==
    rstrip_eq(b64encode(MAGIC_BITS \o str_encode(id \o IntStr(uid))))

\* line 131; id is the notification's id, a str, and uid the viewer's
\* databaseId, an int
notification_token(id, uid) ==
    rstrip_eq(b64encode(MAGIC_BITS \o str_encode(id \o ":" \o IntStr(uid))))

\* line 130
rewrite_url(url) ==
    str_replace(str_replace(str_replace(url, "api.", ""), "repos/", ""),
                "pulls", "pull")

\* lines 130-132
notification_url(row, uid) ==
    rewrite_url(row.subject.url)
        \o "?notification_referrer_id=NT_" \o notification_token(row.id, uid)

\* lines 133-140: the cells of one table row
notification_table_row(row, uid) ==
    [Repo    |-> row.repository.name,
     Title   |-> [text |-> row.subject.title, link |-> notification_url(row, uid)],
     Type    |-> row.subject.type,
     Reason  |-> row.reason,
     Updated |-> date_ago(row.updated_at),
     Token   |-> notification_token(row.id, uid)]

\* line 117: rows.sort(key = lambda row: row['updated_at'])
sort_notifications(rows) ==
    list_sort(rows, [i \in 1..Len(rows) |-> <<rows[i].updated_at>>])

\* lines 128-129 without the membership test
notification_kept_all(row, orgset) == TRUE

\* lines 128-129: the rows the loop does not skip
notification_kept(row, orgset) == row.repository.owner.login \in orgset

\* lines 116-141
report_notifications(rows, uid, orgset) ==
    LET sorted == sort_notifications(rows)
        kept == SelectSeq(sorted, LAMBDA row : notification_kept(row, orgset))
    IN  [title |-> "Notifications",
         rows  |-> [i \in 1..Len(kept) |-> notification_table_row(kept[i], uid)]]

-----------------------------------------------------------------------------
(* report_assigned *)

\* line 203-204: Text(f"#{number}", style=Style(link=url))
closing_text(item) ==
    [text |-> "#" \o IntStr(item.source.number), link |-> item.source.url]

\* the loop of lines 201-204 with a break after line 204: the first closing
\* item stays
RECURSIVE closing_pr_loop_break(_, _)
closing_pr_loop_break(items, closing_pr) ==
    IF Len(items) = 0 THEN closing_pr
    ELSE IF Head(items).willCloseTarget THEN closing_text(Head(items))
    ELSE closing_pr_loop_break(Tail(items), closing_pr)

\* lines 201-204: the loop over the timeline nodes has no break, so every
\* closing item overwrites closing_pr
RECURSIVE closing_pr_loop(_, _)
closing_pr_loop(items, closing_pr) ==
    IF Len(items) = 0 THEN closing_pr
    ELSE closing_pr_loop(Tail(items),
                         IF Head(items).willCloseTarget
                         THEN closing_text(Head(items))
                         ELSE closing_pr)

\* lines 199-205; row.get('timelineItems') is falsy when the member is null
closing_pr_of(row) ==
    IF row.timelineItems = None THEN None
    ELSE closing_pr_loop(row.timelineItems.nodes, None)

\* line 206
blocked_of(row) ==
    \E i \in 1..Len(row.labels.nodes) :
        str_contains(row.labels.nodes[i].name, "blocked")

\* lines 198-206: the row with its two derived members
annotate_assigned(row) ==
    [f \in (DOMAIN row) \cup {"closing_pr", "blocked"} |->
        IF f = "closing_pr" THEN closing_pr_of(row)
        ELSE IF f = "blocked" THEN blocked_of(row)
        ELSE row[f]]

\* the key of line 208 without its first two members
assigned_key_time_only(row) == <<row.updatedAt>>

\* line 208: the key of one annotated row
assigned_key(row) ==
    <<BoolInt(row.closing_pr = None), BoolInt(~row.blocked), row.updatedAt>>

\* line 208
sort_assigned(rows) ==
    list_sort(rows, [i \in 1..Len(rows) |-> assigned_key(rows[i])])

\* line 223: ", ".join(l['name'] for l in labels)
RECURSIVE join_labels(_)
join_labels(labels) ==
    IF Len(labels) = 0 THEN ""
    ELSE IF Len(labels) = 1 THEN labels[1].name
    ELSE labels[1].name \o ", " \o join_labels(Tail(labels))

\* lines 219-232: the cells of one table row
assigned_table_row(row) ==
    [Repo    |-> row.repository.name,
     Number  |-> "#" \o IntStr(row.number),
     Title   |-> [text |-> row.title, link |-> row.url],
     Fix     |-> row.closing_pr,
     Labels  |-> join_labels(row.labels.nodes),
     Updated |-> date_ago(row.updatedAt),
     style   |-> IF row.closing_pr # None \/ row.blocked THEN "dim" ELSE "None"]

\* lines 197-208: data['nodes'] as the function leaves it, annotated and sorted
assigned_rows(data) ==
    sort_assigned([i \in 1..Len(data.nodes) |-> annotate_assigned(data.nodes[i])])

\* lines 196-233
report_assigned(data) ==
    LET rows == assigned_rows(data)
    IN  [title |-> "Assigned PRs and issues",
         rows  |-> [i \in 1..Len(rows) |-> assigned_table_row(rows[i])]]

-----------------------------------------------------------------------------
(* github_api and the statements of __main__ *)

AssertionError == [type |-> "AssertionError"]

\* lines 18-22: the request github_api sends; a None json is falsy
api_request(token, endpoint, json) ==
    [method  |-> IF json # None THEN "POST" ELSE "GET",
     url     |-> "https://api.github.com/" \o endpoint,
     headers |-> [Authorization |-> "Bearer " \o token],
     json    |-> json]

\* lines 23-26 with the else branch returning an empty body instead of
\* raising
api_result_swallow(response) ==
    [exc |-> None,
     value |-> IF response.status_code = 200 THEN response.json ELSE <<>>]

\* lines 23-26: what github_api does with the response, without a retry
api_result(response) ==
    IF response.status_code = 200
    THEN [exc |-> None, value |-> response.json]
    ELSE [exc |-> [type |-> "Exception",
                   message |-> "Query failed to run by returning code of "
                                   \o IntStr(response.status_code) \o ". "
                                   \o response.text],
          value |-> None]

\* line 238 without the assertion
token_assert_skipped(out) == TRUE

\* line 238
token_assert(out) == out.returncode = 0

\* line 239
token_of(out) == str_strip(out.stdout)

\* lines 241-246: --org appends its value, --auto-org stores True.  argparse
\* leaves org None when --org is never given; None is as falsy as the empty
\* list at line 249, the one place that reads it, and is written <<>>
RECURSIVE parse_args(_)
parse_args(av) ==
    IF Len(av) = 0 THEN [org |-> <<>>, auto_org |-> FALSE]
    ELSE IF Head(av) = "--auto-org"
         THEN [parse_args(Tail(av)) EXCEPT !.auto_org = TRUE]
         ELSE LET rest == parse_args(Tail(Tail(av)))
              IN  [rest EXCEPT !.org = <<av[2]>> \o rest.org]

\* line 249: args.org or []
orgs_of(a) == IF Len(a.org) = 0 THEN <<>> ELSE a.org

\* line 252
auto_org_found(out) == out.returncode = 0

\* lines 250-254 without the append of line 254
orgs_after_auto_never(o, out) == o

\* lines 250-254: the filter after the auto-org step; out is the helper's run
orgs_after_auto(o, out) ==
    IF auto_org_found(out) THEN Append(o, out.stdout.owner.login) ELSE o

\* lines 259-263: a search string with an org: qualifier for every filter
RECURSIVE search_with_orgs(_, _)
search_with_orgs(search, o) ==
    IF Len(o) = 0 THEN search
    ELSE search_with_orgs(search \o " org:" \o Head(o), Tail(o))

\* lines 100-112, without the node selection
search_query(search) ==
    "search(first: 100, type: ISSUE, query: \"" \o search \o "\")"

\* lines 264-268, without the two fragments
graphql_query(open_q, assigned_q) ==
    "query { user: viewer { databaseId } open_prs: " \o search_query(open_q)
        \o " assigned: " \o search_query(assigned_q) \o " }"

\* set(orgs), line 273
SetOf(o) == {o[i] : i \in 1..Len(o)}

-----------------------------------------------------------------------------
(* The environment: the gh helper, the command line, the two endpoints *)

\* the longest notification list GET /notifications answers with
MaxNotifications == 2

VALID_TOKEN == "gho_x"

\* gh auth token: a token, nothing at all, or a failure
GhAuthTokenRuns ==
    {[argv |-> "gh auth token", returncode |-> 0, stdout |-> VALID_TOKEN \o "\n"],
     [argv |-> "gh auth token", returncode |-> 0, stdout |-> ""],
     [argv |-> "gh auth token", returncode |-> 1, stdout |-> ""]}

\* --org given never, once or twice, with and without --auto-org
Argvs ==
    {<<>>, <<"--org", "acme">>, <<"--org", "acme", "--org", "rust">>,
     <<"--auto-org">>, <<"--auto-org", "--org", "acme">>,
     <<"--org", "acme", "--auto-org", "--org", "rust">>}

\* gh repo view --json owner: stdout is shown decoded; outside a repository
\* the helper fails
GhRepoViewRuns ==
    {[argv |-> "gh repo view --json owner", returncode |-> 0,
      stdout |-> [owner |-> [login |-> "acme"]]],
     [argv |-> "gh repo view --json owner", returncode |-> 0,
      stdout |-> [owner |-> [login |-> "rust"]]],
     [argv |-> "gh repo view --json owner", returncode |-> 1, stdout |-> None]}

Notification(id, owner, repo, kind, n, updated_at) ==
    [id         |-> id,
     updated_at |-> updated_at,
     repository |-> [owner |-> [login |-> owner], name |-> repo],
     subject    |-> [title |-> "T" \o id,
                     url   |-> "https://api.github.com/repos/" \o owner \o "/"
                                   \o repo \o "/" \o kind \o "/" \o IntStr(n),
                     type  |-> IF kind = "pulls" THEN "PullRequest" ELSE "Issue"],
     reason     |-> "review_requested"]

\* notification lists of n rows: row i has id i, any of two owners and any
\* time
NotificationLists(n) ==
    {[i \in 1..n |-> Notification(IntStr(i), f[i][1], "r", "pulls", i, f[i][2])] :
        f \in [1..n -> {"acme", "rust"} \X (1..MaxTime)]}

NotificationInputs == UNION {NotificationLists(n) : n \in 0..MaxNotifications}

Rollups == {None} \cup {[state |-> st] : st \in {"SUCCESS", "PENDING", "FAILURE", "ERROR"}}

PullRequest(number, updatedAt, isDraft, mergeable, rollup, decision, reviews, reqs) ==
    [repository     |-> [name |-> "r"],
     number         |-> number,
     title          |-> "PR " \o IntStr(number),
     url            |-> "https://github.com/acme/r/pull/" \o IntStr(number),
     headRefName    |-> "topic",
     updatedAt      |-> updatedAt,
     isDraft        |-> isDraft,
     mergeable      |-> mergeable,
     reviewDecision |-> decision,
     commits        |-> [nodes |-> <<[commit |-> [statusCheckRollup |-> rollup]]>>],
     latestReviews  |-> [nodes |-> reviews],
     reviewRequests |-> [nodes |-> reqs]]

ReviewLists == {<<>>} \cup {<<[state |-> st]>> : st \in {"APPROVED", "CHANGES_REQUESTED", "COMMENTED"}}

ReviewRequestLists == {<<>>, <<[requestedReviewer |-> [login |-> "bob"]]>>}

\* one pull request, every combination of the members the icons are read from
OnePullRequest ==
    {<<PullRequest(1, 1, d, m, r, rd, lr, rr)>> :
        d \in BOOLEAN, m \in {"MERGEABLE", "CONFLICTING"}, r \in Rollups,
        rd \in {"APPROVED", "CHANGES_REQUESTED", null},
        lr \in ReviewLists, rr \in ReviewRequestLists}

\* the longest list of pull requests that differ in time and rollup only
MaxPRs == 2

\* n pull requests: row i has number i, any time, and a rollup or none
PullRequestLists(n) ==
    {[i \in 1..n |-> PullRequest(i, f[i][1], FALSE, "MERGEABLE", f[i][2],
                                 null, <<>>, <<>>)] :
        f \in [1..n -> (1..MaxTime) \X {None, [state |-> "SUCCESS"]}]}

OpenPRInputs == OnePullRequest \cup UNION {PullRequestLists(n) : n \in 0..MaxPRs}

\* a cross-reference event; the i-th event of a timeline comes from PR 100+i
CrossRef(i, closes) ==
    [willCloseTarget |-> closes,
     source |-> [number |-> 100 + i,
                 url |-> "https://github.com/acme/r/pull/" \o IntStr(100 + i)]]

\* the longest timeline
MaxEvents == 3

Timelines ==
    {None} \cup UNION {{[nodes |-> [i \in 1..n |-> CrossRef(i, f[i])]] :
                           f \in [1..n -> BOOLEAN]} : n \in 0..MaxEvents}

LabelLists ==
    {<<>>, <<[name |-> "bug"]>>, <<[name |-> "blocked-on-design"]>>,
     <<[name |-> "bug"], [name |-> "blocked"]>>}

Assigned(number, updatedAt, timeline, labels) ==
    [repository    |-> [name |-> "r"],
     number        |-> number,
     title         |-> "Issue " \o IntStr(number),
     url           |-> "https://github.com/acme/r/issues/" \o IntStr(number),
     updatedAt     |-> updatedAt,
     labels        |-> [nodes |-> labels],
     timelineItems |-> timeline]

\* one assigned item, every timeline and label list
OneAssigned ==
    {<<Assigned(1, 1, t, l)>> : t \in Timelines, l \in LabelLists}

\* the longest list of assigned items that differ in the sort key only
MaxAssigned == 3

\* n assigned items: row i has number i, any time, a closing PR or none,
\* a blocked label or none
AssignedLists(n) ==
    {[i \in 1..n |-> Assigned(i, f[i][1], f[i][2], f[i][3])] :
        f \in [1..n -> (1..MaxTime)
                         \X {None, [nodes |-> <<CrossRef(1, TRUE)>>]}
                         \X {<<>>, <<[name |-> "blocked-on-design"]>>}]}

AssignedInputs == OneAssigned \cup UNION {AssignedLists(n) : n \in 0..MaxAssigned}

GraphQLData(uid, prs, assigned) ==
    [user     |-> [databaseId |-> uid],
     open_prs |-> [nodes |-> prs],
     assigned |-> [nodes |-> assigned]]

\* what the script run meets of the search results (the viewer's id is 42): nothing, or two pull
\* requests of which the later has no rollup, and two assigned items
GraphQLSamples ==
    {GraphQLData(42, <<>>, <<>>),
     GraphQLData(42,
                 <<PullRequest(1, 2, FALSE, "MERGEABLE", None, null, <<>>, <<>>),
                   PullRequest(2, 1, FALSE, "MERGEABLE", [state |-> "SUCCESS"],
                               null, <<>>, <<>>)>>,
                 <<>>),
     GraphQLData(42,
                 <<PullRequest(1, 1, TRUE, "CONFLICTING", [state |-> "PENDING"],
                               "APPROVED", <<>>, <<>>)>>,
                 <<Assigned(1, 2, None, <<>>),
                   Assigned(2, 1, [nodes |-> <<CrossRef(1, TRUE)>>], <<>>)>>)}

\* the API answers 200 only to the valid token, and 401 to any other; only
\* a 200 answer is decoded (response.json())
NotificationResponses(token) ==
    IF token = VALID_TOKEN
    THEN {[status_code |-> 200, text |-> "", json |-> n] : n \in NotificationInputs}
         \cup {[status_code |-> 502, text |-> "Bad Gateway"]}
    ELSE {[status_code |-> 401, text |-> "Bad credentials"]}

\* a 200 GraphQL answer holds the data, or null data beside errors
GraphQLResponses(token) ==
    IF token = VALID_TOKEN
    THEN {[status_code |-> 200, text |-> "", json |-> [data |-> d]] :
             d \in GraphQLSamples \cup {None}}
         \cup {[status_code |-> 502, text |-> "Bad Gateway"]}
    ELSE {[status_code |-> 401, text |-> "Bad credentials"]}

-----------------------------------------------------------------------------
(* The script, statement by statement *)

Init ==
    /\ pc = "get_token"
    /\ argv \in Argvs
    /\ procs = <<>>
    /\ GITHUB_TOKEN = None
    /\ args = None
    /\ orgs = None
    /\ requests = <<>>
    /\ notifications = None
    /\ open_prs_query = None
    /\ assigned_query = None
    /\ graphql_result = None
    /\ user_id = None
    /\ stdout = <<>>
    /\ exc = None

\* lines 237-239
GetToken ==
    /\ pc = "get_token"
    /\ \E out \in GhAuthTokenRuns :
        /\ procs' = Append(procs, out)
        /\ IF token_assert(out)
           THEN /\ GITHUB_TOKEN' = token_of(out)
                /\ pc' = "parse_args"
                /\ exc' = exc
           ELSE /\ GITHUB_TOKEN' = GITHUB_TOKEN
                /\ pc' = "failed"
                /\ exc' = AssertionError
    /\ UNCHANGED <<argv, args, orgs, requests, notifications, open_prs_query,
                   assigned_query, graphql_result, user_id, stdout>>

\* lines 241-246
ParseArgs ==
    /\ pc = "parse_args"
    /\ args' = parse_args(argv)
    /\ pc' = "filter_orgs"
    /\ UNCHANGED <<argv, procs, GITHUB_TOKEN, orgs, requests, notifications,
                   open_prs_query, assigned_query, graphql_result, user_id,
                   stdout, exc>>

\* lines 249-254; orgs is args.org itself when --org was given, so the
\* append shows in both
FilterOrgs ==
    /\ pc = "filter_orgs"
    /\ IF args.auto_org
       THEN \E out \in GhRepoViewRuns :
               /\ procs' = Append(procs, out)
               /\ orgs' = orgs_after_auto(orgs_of(args), out)
               /\ args' = IF Len(args.org) = 0 THEN args
                          ELSE [args EXCEPT !.org = orgs_after_auto(args.org, out)]
       ELSE /\ orgs' = orgs_of(args)
            /\ UNCHANGED <<procs, args>>
    /\ pc' = "fetch_notifications"
    /\ UNCHANGED <<argv, GITHUB_TOKEN, requests, notifications, open_prs_query,
                   assigned_query, graphql_result, user_id, stdout, exc>>

\* line 257
FetchNotifications ==
    /\ pc = "fetch_notifications"
    /\ \E response \in NotificationResponses(GITHUB_TOKEN) :
        LET request == api_request(GITHUB_TOKEN, "notifications", None)
            result == api_result(response)
        IN  /\ requests' = Append(requests, [request |-> request, response |-> response])
            /\ IF result.exc = None
               THEN /\ notifications' = result.value
                    /\ pc' = "run_graphql"
                    /\ exc' = exc
               ELSE /\ notifications' = notifications
                    /\ pc' = "failed"
                    /\ exc' = result.exc
    /\ UNCHANGED <<argv, procs, GITHUB_TOKEN, args, orgs, open_prs_query,
                   assigned_query, graphql_result, user_id, stdout>>

\* lines 259-269
RunGraphQL ==
    /\ pc = "run_graphql"
    /\ open_prs_query' = search_with_orgs("state:open author:@me is:pr", orgs)
    /\ assigned_query' = search_with_orgs("state:open assignee:@me", orgs)
    /\ \E response \in GraphQLResponses(GITHUB_TOKEN) :
        LET request == api_request(GITHUB_TOKEN, "graphql",
                           [query |-> graphql_query(open_prs_query', assigned_query')])
            result == api_result(response)
        IN  /\ requests' = Append(requests, [request |-> request, response |-> response])
            /\ IF result.exc = None
               THEN /\ graphql_result' = result.value.data
                    /\ pc' = "display_notifications"
                    /\ exc' = exc
               ELSE /\ graphql_result' = graphql_result
                    /\ pc' = "failed"
                    /\ exc' = result.exc
    /\ UNCHANGED <<argv, procs, GITHUB_TOKEN, args, orgs, notifications, user_id,
                   stdout>>

\* lines 272-273; subscripting null data raises TypeError; the sort of line
\* 117 is in place
DisplayNotifications ==
    /\ pc = "display_notifications"
    /\ IF graphql_result = None
       THEN /\ exc' = TypeError
            /\ pc' = "failed"
            /\ UNCHANGED <<user_id, notifications, stdout>>
       ELSE /\ user_id' = graphql_result.user.databaseId
            /\ notifications' = sort_notifications(notifications)
            /\ stdout' = Append(stdout,
                                report_notifications(notifications, user_id', SetOf(orgs)))
            /\ pc' = "display_open_prs"
            /\ exc' = exc
    /\ UNCHANGED <<argv, procs, GITHUB_TOKEN, args, orgs, requests, open_prs_query,
                   assigned_query, graphql_result>>

\* line 274; the sort of line 145 is in place and precedes the loop
DisplayOpenPRs ==
    /\ pc = "display_open_prs"
    /\ LET result == report_open_prs(graphql_result.open_prs)
           nodes == graphql_result.open_prs.nodes
           sorted == list_sort(nodes, [i \in 1..Len(nodes) |-> <<nodes[i].updatedAt>>])
       IN  /\ graphql_result' = [graphql_result EXCEPT !.open_prs.nodes = sorted]
           /\ IF result.exc = None
              THEN /\ stdout' = Append(stdout, result.table)
                   /\ pc' = "display_assigned"
                   /\ exc' = exc
              ELSE /\ stdout' = stdout
                   /\ pc' = "failed"
                   /\ exc' = result.exc
    /\ UNCHANGED <<argv, procs, GITHUB_TOKEN, args, orgs, requests, notifications,
                   open_prs_query, assigned_query, user_id>>

\* line 275; lines 205-208 change the rows in place
DisplayAssigned ==
    /\ pc = "display_assigned"
    /\ graphql_result' =
           [graphql_result EXCEPT !.assigned.nodes = assigned_rows(graphql_result.assigned)]
    /\ stdout' = Append(stdout, report_assigned(graphql_result.assigned))
    /\ pc' = "done"
    /\ UNCHANGED <<argv, procs, GITHUB_TOKEN, args, orgs, requests, notifications,
                   open_prs_query, assigned_query, user_id, exc>>

Next ==
    \/ GetToken
    \/ ParseArgs
    \/ FilterOrgs
    \/ FetchNotifications
    \/ RunGraphQL
    \/ DisplayNotifications
    \/ DisplayOpenPRs
    \/ DisplayAssigned

Spec == Init /\ [][Next]_vars

-----------------------------------------------------------------------------
(* The display statements on wider inputs.  Each specification below      *)
(* starts the script at one of its three print statements, in the state   *)
(* the statements before it leave for the given command line and answers. *)

TokenRun == [argv |-> "gh auth token", returncode |-> 0, stdout |-> VALID_TOKEN \o "\n"]

AtDisplay(at, av, notifs, data) ==
    LET o == orgs_of(parse_args(av))
        open_q == search_with_orgs("state:open author:@me is:pr", o)
        assigned_q == search_with_orgs("state:open assignee:@me", o)
        uid == data.user.databaseId
    IN  /\ pc = at
        /\ argv = av
        /\ procs = <<TokenRun>>
        /\ GITHUB_TOKEN = token_of(TokenRun)
        /\ args = parse_args(av)
        /\ orgs = o
        /\ requests =
             <<[request  |-> api_request(VALID_TOKEN, "notifications", None),
                response |-> [status_code |-> 200, text |-> "", json |-> notifs]],
               [request  |-> api_request(VALID_TOKEN, "graphql",
                                 [query |-> graphql_query(open_q, assigned_q)]),
                response |-> [status_code |-> 200, text |-> "",
                              json |-> [data |-> data]]]>>
        /\ notifications = IF at = "display_notifications" THEN notifs
                           ELSE sort_notifications(notifs)
        /\ open_prs_query = open_q
        /\ assigned_query = assigned_q
        /\ graphql_result = data
        /\ user_id = IF at = "display_notifications" THEN None ELSE uid
        /\ stdout = IF at = "display_notifications" THEN <<>>
                    ELSE IF at = "display_open_prs"
                    THEN <<report_notifications(notifs, uid, SetOf(o))>>
                    ELSE <<report_notifications(notifs, uid, SetOf(o)),
                           report_open_prs(data.open_prs).table>>
        /\ exc = None

InitOpenPRs ==
    \E prs \in OpenPRInputs :
        AtDisplay("display_open_prs", <<>>, <<>>, GraphQLData(42, prs, <<>>))

SpecOpenPRs == InitOpenPRs /\ [][DisplayOpenPRs \/ DisplayAssigned]_vars

InitAssigned ==
    \E a \in AssignedInputs :
        AtDisplay("display_assigned", <<>>, <<>>, GraphQLData(42, <<>>, a))

SpecAssigned == InitAssigned /\ [][DisplayAssigned]_vars

\* the longest notification id, and the largest viewer id
MaxIdLen == 2
MaxViewerId == 11

\* notification ids: the texts of up to MaxIdLen characters over "1" and ":"
RECURSIVE IdsOfLen(_)
IdsOfLen(n) ==
    IF n = 0 THEN {""} ELSE {c \o t : c \in {"1", ":"}, t \in IdsOfLen(n - 1)}

NotificationIds == UNION {IdsOfLen(n) : n \in 1..MaxIdLen}

ViewerIds == 0..MaxViewerId

InitToken ==
    \E id \in NotificationIds, uid \in ViewerIds :
        AtDisplay("display_notifications", <<"--org", "acme">>,
                  <<Notification(id, "acme", "r", "pulls", 5, 1)>>,
                  GraphQLData(uid, <<>>, <<>>))

SpecToken == InitToken /\ [][DisplayNotifications]_vars

\* the largest pull request or issue number of a notification's subject
MaxNumber == 2

OwnerNames == {"acme", "myrepos", "pulls"}
RepoNames == {"r", "api.js", "pulls", "repos", "my-repos"}

InitUrl ==
    \E owner \in OwnerNames, repo \in RepoNames, kind \in {"pulls", "issues"},
       n \in 1..MaxNumber :
        AtDisplay("display_notifications", <<"--org", owner>>,
                  <<Notification("1", owner, repo, kind, n, 1)>>,
                  GraphQLData(42, <<>>, <<>>))

SpecUrl == InitUrl /\ [][DisplayNotifications]_vars

-----------------------------------------------------------------------------
(* What the claims speak of *)

\* the body of GET /notifications and the data of the GraphQL answer, as
\* received (the script sorts its own references to them in place)
ReceivedNotifications == requests[1].response.json
ReceivedData == requests[2].response.json.data

NotificationsPrinted == Len(stdout) >= 1
OpenPRsPrinted == Len(stdout) >= 2
AssignedPrinted == Len(stdout) >= 3

\* the rows of an Open PRs table whose Number cell shows number n
RowsNumbered(table, n) ==
    {i \in 1..Len(table.rows) : table.rows[i].Number.text = "#" \o IntStr(n)}

HasReview(row) == Len(row.latestReviews.nodes) # 0
HasReviewRequest(row) == Len(row.reviewRequests.nodes) # 0

\* review_status as the claim C1 words it: an empty cell for every draft
ClaimedReviewStatus(row) ==
    IF row.isDraft THEN ""
    ELSE IF row.reviewDecision = "APPROVED" THEN ICON_CHECK
    ELSE IF ~HasReview(row)
         THEN (IF HasReviewRequest(row) THEN ICON_YELLOW ELSE ICON_QUESTION)
    ELSE IF row.latestReviews.nodes[1].state = "APPROVED" THEN ICON_CHECK
    ELSE IF row.latestReviews.nodes[1].state = "CHANGES_REQUESTED" THEN ICON_CROSS
    ELSE ICON_QUESTION

\* review_status as amended: a draft changes only the cell of a pull request
\* that is neither approved, nor reviewed with a verdict, nor awaiting review
AmendedReviewStatus(row) ==
    CASE row.reviewDecision = "APPROVED" -> ICON_CHECK
      [] row.reviewDecision # "APPROVED" /\ ~HasReview(row) /\ HasReviewRequest(row)
             -> ICON_YELLOW
      [] row.reviewDecision # "APPROVED" /\ HasReview(row)
         /\ row.latestReviews.nodes[1].state = "APPROVED" -> ICON_CHECK
      [] row.reviewDecision # "APPROVED" /\ HasReview(row)
         /\ row.latestReviews.nodes[1].state = "CHANGES_REQUESTED" -> ICON_CROSS
      [] OTHER -> IF row.isDraft THEN "" ELSE ICON_QUESTION

\* C1 as claimed: every row of the Open PRs table shows, for its pull
\* request, the review icon of the claim; a draft always shows the empty cell.
C1_ReviewStatusAsClaimed ==
    OpenPRsPrinted =>
        \A k \in 1..Len(ReceivedData.open_prs.nodes) :
            LET row == ReceivedData.open_prs.nodes[k]
            IN  \E i \in RowsNumbered(stdout[2], row.number) :
                    stdout[2].rows[i].Review = ClaimedReviewStatus(row)

\* C1 as amended: every row of the Open PRs table shows the check mark when
\* reviewDecision is APPROVED, draft or not; otherwise the yellow dot when no
\* review exists and a review request is outstanding; otherwise the check mark
\* or the cross when the latest review is APPROVED or CHANGES_REQUESTED; and
\* in every remaining case the empty cell for a draft and the question mark
\* for any other pull request.
C1_ReviewStatusAmended ==
    OpenPRsPrinted =>
        /\ Len(stdout[2].rows) = Len(ReceivedData.open_prs.nodes)
        /\ \A k \in 1..Len(ReceivedData.open_prs.nodes) :
            LET row == ReceivedData.open_prs.nodes[k]
            IN  \E i \in RowsNumbered(stdout[2], row.number) :
                    stdout[2].rows[i].Review = AmendedReviewStatus(row)

\* C1's case: the table is printed with a draft that is approved, and its
\* review cell is the check mark
C1_Witness ==
    /\ OpenPRsPrinted
    /\ \E k \in 1..Len(ReceivedData.open_prs.nodes) :
        LET row == ReceivedData.open_prs.nodes[k]
        IN  /\ row.isDraft
            /\ row.reviewDecision = "APPROVED"
            /\ \E i \in RowsNumbered(stdout[2], row.number) :
                   stdout[2].rows[i].Review = ICON_CHECK

RollupState(row) ==
    IF row.commits.nodes[1].commit.statusCheckRollup = None THEN "absent"
    ELSE row.commits.nodes[1].commit.statusCheckRollup.state

ClaimedCiStatus(row) ==
    IF row.mergeable # "MERGEABLE" THEN ICON_CROSS
    ELSE IF RollupState(row) = "PENDING" THEN ICON_YELLOW
    ELSE IF RollupState(row) # "SUCCESS" THEN ICON_CROSS
    ELSE ICON_CHECK

\* C2: once report_open_prs has run, no exception was raised and every pull
\* request has a row whose CI cell is the cross when mergeable is not
\* MERGEABLE (whatever the rollup is, null included), else the yellow dot for
\* PENDING, the cross for anything but SUCCESS, and the check mark for SUCCESS.
C2_CiStatusForEveryRow ==
    pc # "display_open_prs" =>
        /\ exc = None
        /\ OpenPRsPrinted
        /\ \A k \in 1..Len(ReceivedData.open_prs.nodes) :
            LET row == ReceivedData.open_prs.nodes[k]
            IN  \E i \in RowsNumbered(stdout[2], row.number) :
                    stdout[2].rows[i].CI = ClaimedCiStatus(row)

\* the timeline events of an assigned item that will close it, in order
ClosingEvents(row) ==
    IF row.timelineItems = None THEN <<>>
    ELSE SelectSeq(row.timelineItems.nodes, LAMBDA e : e.willCloseTarget)

FixOf(e) == [text |-> "#" \o IntStr(e.source.number), link |-> e.source.url]

\* the rows of the Assigned table whose Number cell shows number n
AssignedRowsNumbered(n) ==
    {i \in 1..Len(stdout[3].rows) : stdout[3].rows[i].Number = "#" \o IntStr(n)}

\* C3 as claimed: every assigned row's Fix cell shows the FIRST timeline
\* event that will close the item, and is absent when there is none.
C3_ClosingPrIsFirst ==
    AssignedPrinted =>
        \A k \in 1..Len(ReceivedData.assigned.nodes) :
            LET row == ReceivedData.assigned.nodes[k]
                closing == ClosingEvents(row)
            IN  \E i \in AssignedRowsNumbered(row.number) :
                    stdout[3].rows[i].Fix =
                        IF Len(closing) = 0 THEN None ELSE FixOf(closing[1])

\* C3 as amended: every assigned row's Fix cell shows the LAST timeline event
\* (in timeline order) that will close the item, with that event's source
\* PR number and URL, and is absent when there is none or no timelineItems.
C3_ClosingPrIsLast ==
    AssignedPrinted =>
        \A k \in 1..Len(ReceivedData.assigned.nodes) :
            LET row == ReceivedData.assigned.nodes[k]
                closing == ClosingEvents(row)
            IN  \E i \in AssignedRowsNumbered(row.number) :
                    stdout[3].rows[i].Fix =
                        IF Len(closing) = 0 THEN None
                        ELSE FixOf(closing[Len(closing)])

\* C3's case: a printed row whose item has several closing events
C3_Witness ==
    /\ AssignedPrinted
    /\ \E k \in 1..Len(ReceivedData.assigned.nodes) :
        LET row == ReceivedData.assigned.nodes[k]
            closing == ClosingEvents(row)
        IN  /\ Len(closing) >= 2
            /\ \E i \in AssignedRowsNumbered(row.number) :
                   stdout[3].rows[i].Fix = FixOf(closing[Len(closing)])

HasClosingPr(row) == Len(ClosingEvents(row)) > 0

IsBlocked(row) ==
    \E l \in 1..Len(row.labels.nodes) :
        str_contains(row.labels.nodes[l].name, "blocked")

ClaimedAssignedKey(row) ==
    <<BoolInt(~HasClosingPr(row)), BoolInt(~IsBlocked(row)), row.updatedAt>>

\* the assigned item shown in row i of the Assigned table
AssignedShown(i) ==
    ReceivedData.assigned.nodes[
        CHOOSE k \in 1..Len(ReceivedData.assigned.nodes) :
            stdout[3].rows[i].Number = "#" \o IntStr(ReceivedData.assigned.nodes[k].number)]

\* C4: the rows of the Assigned table are the received items, each once, in
\* ascending order of (no closing PR, not blocked, updatedAt): rows with a
\* closing PR come before rows without, blocked rows before the others among
\* those without, and updatedAt does not decrease within a group.
C4_AssignedSorted ==
    AssignedPrinted =>
        /\ Len(stdout[3].rows) = Len(ReceivedData.assigned.nodes)
        /\ \A k \in 1..Len(ReceivedData.assigned.nodes) :
               Cardinality(AssignedRowsNumbered(ReceivedData.assigned.nodes[k].number)) = 1
        /\ \A i, j \in 1..Len(stdout[3].rows) :
            i < j =>
                LET a == AssignedShown(i)
                    b == AssignedShown(j)
                IN  /\ HasClosingPr(b) => HasClosingPr(a)
                    /\ (~HasClosingPr(a) /\ ~HasClosingPr(b) /\ IsBlocked(b))
                           => IsBlocked(a)
                    /\ (HasClosingPr(a) = HasClosingPr(b) /\ IsBlocked(a) = IsBlocked(b))
                           => a.updatedAt <= b.updatedAt
                    /\ ~KeyLess(ClaimedAssignedKey(b), ClaimedAssignedKey(a))

\* C4's case: a plain item, a blocked item and an item with a closing PR are
\* received in that order and printed in the opposite one
C4_Witness ==
    /\ AssignedPrinted
    /\ Len(ReceivedData.assigned.nodes) = 3
    /\ LET n == ReceivedData.assigned.nodes
       IN  /\ ~HasClosingPr(n[1]) /\ ~IsBlocked(n[1])
           /\ ~HasClosingPr(n[2]) /\ IsBlocked(n[2])
           /\ HasClosingPr(n[3]) /\ ~IsBlocked(n[3])
           /\ n[1].updatedAt < n[3].updatedAt
    /\ stdout[3].rows[1].Number = "#3"
    /\ stdout[3].rows[2].Number = "#2"
    /\ stdout[3].rows[3].Number = "#1"

\* the received notifications whose repository owner is in the filter set
KeptNotifications(filter) ==
    {k \in 1..Len(ReceivedNotifications) :
        ReceivedNotifications[k].repository.owner.login \in filter}

\* the received notification shown in row i of the Notifications table
NotificationShown(i) ==
    ReceivedNotifications[
        CHOOSE k \in 1..Len(ReceivedNotifications) :
            ReceivedNotifications[k].subject.title = stdout[1].rows[i].Title.text]

\* C5: a received notification has a row in the Notifications table exactly
\* when its repository owner is in the organization filter set; with an empty
\* filter set the table has no rows while both search strings carry no org:
\* qualifier; and the rows are in non-decreasing updated_at order.
C5_NotificationsFilteredAndSorted ==
    NotificationsPrinted =>
        LET filter == {orgs[i] : i \in 1..Len(orgs)}
            rows == stdout[1].rows
        IN  /\ Len(rows) = Cardinality(KeptNotifications(filter))
            /\ \A k \in 1..Len(ReceivedNotifications) :
                   (k \in KeptNotifications(filter))
                       <=> \E i \in 1..Len(rows) :
                               rows[i].Title.text = ReceivedNotifications[k].subject.title
            /\ filter = {} =>
                   /\ rows = <<>>
                   /\ open_prs_query = "state:open author:@me is:pr"
                   /\ assigned_query = "state:open assignee:@me"
            /\ \A i, j \in 1..Len(rows) :
                   i < j => NotificationShown(i).updated_at <= NotificationShown(j).updated_at

\* C5's case: two notifications of an organization in the filter arrive
\* latest first and are printed earliest first
C5_Witness ==
    /\ NotificationsPrinted
    /\ Len(ReceivedNotifications) = 2
    /\ ReceivedNotifications[1].updated_at > ReceivedNotifications[2].updated_at
    /\ Len(stdout[1].rows) = 2
    /\ stdout[1].rows[1].Title.text = ReceivedNotifications[2].subject.title

\* C6 as claimed: no request is ever issued when the helper exits non-zero
\* or when it exits zero and prints nothing; every request that is issued
\* carries a non-empty bearer token.
C6_TokenNonEmptyAtEveryCall ==
    /\ (Len(procs) >= 1
        /\ (procs[1].returncode # 0 \/ str_strip(procs[1].stdout) = ""))
           => requests = <<>>
    /\ \A i \in 1..Len(requests) :
           requests[i].request.headers.Authorization # "Bearer "

\* C6 as amended: the run fails with the assertion, with no request issued
\* and nothing printed, when the helper exits non-zero; when it exits zero the
\* run goes on with the helper's output, stripped, as the bearer token of
\* every request, also when that output is empty.
C6_NonZeroExitFailsBeforeAnyCall ==
    /\ (Len(procs) >= 1 /\ procs[1].returncode # 0)
           => (pc = "failed" /\ exc = AssertionError /\ requests = <<>> /\ stdout = <<>>)
    /\ (Len(procs) >= 1 /\ procs[1].returncode = 0)
           => (exc # AssertionError /\ GITHUB_TOKEN = str_strip(procs[1].stdout))
    /\ \A i \in 1..Len(requests) :
           /\ procs[1].returncode = 0
           /\ requests[i].request.headers.Authorization
                  = "Bearer " \o str_strip(procs[1].stdout)

\* C6's case: the helper exited zero with empty output and the notifications
\* GET went out with an empty bearer token
C6_Witness ==
    /\ Len(procs) >= 1
    /\ procs[1].returncode = 0
    /\ procs[1].stdout = ""
    /\ Len(requests) >= 1
    /\ requests[1].request.method = "GET"
    /\ requests[1].request.headers.Authorization = "Bearer "

\* C7: each endpoint is requested at most once, the GET first; a response
\* other than 200 is the last one, ends the run with an exception whose
\* message holds the status code and the raw body, and leaves nothing
\* printed; a table is printed only after both calls returned 200 and the
\* viewer id was read from the GraphQL data.
C7_NoTableUnlessBothCallsSucceeded ==
    /\ Len(requests) <= 2
    /\ \A i \in 1..Len(requests) :
        LET r == requests[i]
        IN  /\ r.request.method = (IF i = 1 THEN "GET" ELSE "POST")
            /\ r.request.url = (IF i = 1 THEN "https://api.github.com/notifications"
                                ELSE "https://api.github.com/graphql")
            /\ r.response.status_code # 200 =>
                   /\ i = Len(requests)
                   /\ pc = "failed"
                   /\ exc.type = "Exception"
                   /\ str_contains(exc.message, IntStr(r.response.status_code))
                   /\ str_contains(exc.message, r.response.text)
                   /\ stdout = <<>>
    /\ stdout # <<>> =>
           /\ Len(requests) = 2
           /\ requests[1].response.status_code = 200
           /\ requests[2].response.status_code = 200
           /\ ReceivedData # None
           /\ user_id = ReceivedData.user.databaseId

\* C7's case: the GET returned 200, the GraphQL POST did not, and the run
\* ended with nothing printed
C7_Witness ==
    /\ Len(requests) = 2
    /\ requests[1].response.status_code = 200
    /\ requests[2].response.status_code = 502
    /\ pc = "failed"
    /\ stdout = <<>>

\* base64 decoding, the inverse the claim C8 decodes tokens with
B64Index(c) == CHOOSE i \in 0..63 : B64Alphabet[i + 1] = c

Repad(t) ==
    IF Len(t) % 4 = 2 THEN t \o "=="
    ELSE IF Len(t) % 4 = 3 THEN t \o "="
    ELSE t

RECURSIVE B64Decode(_)
B64Decode(t) ==
    IF Len(t) < 4 THEN <<>>
    ELSE LET c1 == B64Index(SubSeq(t, 1, 1))
             c2 == B64Index(SubSeq(t, 2, 2))
             p3 == SubSeq(t, 3, 3) = "="
             p4 == SubSeq(t, 4, 4) = "="
             c3 == IF p3 THEN 0 ELSE B64Index(SubSeq(t, 3, 3))
             c4 == IF p4 THEN 0 ELSE B64Index(SubSeq(t, 4, 4))
             b1 == c1 * 4 + (c2 \div 16)
             b2 == (c2 % 16) * 16 + (c3 \div 4)
             b3 == (c3 % 4) * 64 + c4
         IN  (IF p3 THEN <<b1>> ELSE IF p4 THEN <<b1, b2>> ELSE <<b1, b2, b3>>)
                 \o B64Decode(SubSeq(t, 5, Len(t)))

\* the ASCII bytes of "<id>:<uid>", written out
RECURSIVE AsciiBytes(_)
AsciiBytes(t) ==
    IF Len(t) = 0 THEN <<>>
    ELSE <<(CASE Head(t) = ":" -> 58 [] Head(t) = "-" -> 45
              [] OTHER -> 48 + (CHOOSE d \in 0..9 : Digits[d + 1] = Head(t)))>>
             \o AsciiBytes(Tail(t))

\* C8: the Token cell, padded again and decoded, is the eight magic bytes
\* followed by the bytes of "<notification id>:<viewer id>"; no other pair of
\* notification id and viewer id has the same token; and the link of the row
\* ends in notification_referrer_id=NT_ followed by that very token.
C8_TokenInjectiveAndDecodable ==
    NotificationsPrinted =>
        LET row == stdout[1].rows[1]
            id  == ReceivedNotifications[1].id
            uid == ReceivedData.user.databaseId
        IN  /\ Len(stdout[1].rows) = 1
            /\ B64Decode(Repad(row.Token))
                   = <<147, 0, 206, 0, 103, 130, 166, 179>>
                         \o AsciiBytes(id \o ":" \o IntStr(uid))
            /\ \A id2 \in NotificationIds, uid2 \in ViewerIds :
                   (id2 # id \/ uid2 # uid) => notification_token(id2, uid2) # row.Token
            /\ row.Title.link
                   = "https://github.com/acme/r/pull/5?notification_referrer_id=NT_"
                         \o row.Token

\* C8's case: a token was built for a pair that another pair would collide
\* with if the separator did not keep them apart ("1:" with 1, "1" with 1...)
C8_Witness ==
    /\ NotificationsPrinted
    /\ ReceivedNotifications[1].id = "11"
    /\ user_id = 1
    /\ Len(stdout[1].rows) = 1
    /\ stdout[1].rows[1].Token = "kwDOAGeCprMxMTox"

\* the values of --org on the command line, in order
RECURSIVE ExplicitOrgs(_)
ExplicitOrgs(av) ==
    IF Len(av) = 0 THEN <<>>
    ELSE IF Head(av) = "--org" THEN <<av[2]>> \o ExplicitOrgs(SubSeq(av, 3, Len(av)))
    ELSE ExplicitOrgs(Tail(av))

AutoOrgGiven(av) == \E i \in 1..Len(av) : av[i] = "--auto-org"

\* the filter the claim C9 describes, once the helper has been asked
ClaimedOrgs ==
    ExplicitOrgs(argv)
        \o (IF AutoOrgGiven(argv) /\ Len(procs) >= 2 /\ procs[2].returncode = 0
            THEN <<procs[2].stdout.owner.login>> ELSE <<>>)

RECURSIVE OrgQualifiers(_)
OrgQualifiers(o) ==
    IF Len(o) = 0 THEN "" ELSE OrgQualifiers(SubSeq(o, 1, Len(o) - 1)) \o " org:" \o o[Len(o)]

\* the filter has been resolved: the script is past line 254
OrgsResolved ==
    pc \in {"fetch_notifications", "run_graphql", "display_notifications",
            "display_open_prs", "display_assigned", "done"}
        \/ (pc = "failed" /\ requests # <<>>)

\* C9: the filter is the --org values in order, followed by the owner login
\* the helper reports when --auto-org is given and the helper succeeds; a
\* failing helper raises nothing and leaves the --org values alone; both search
\* strings end in one org: qualifier per entry of that list, in order; and the
\* Notifications table keeps the rows whose owner is a member of it.
C9_OrgFilterResolution ==
    /\ OrgsResolved =>
           /\ orgs = ClaimedOrgs
           /\ AutoOrgGiven(argv) <=> Len(procs) = 2
           /\ (AutoOrgGiven(argv) /\ procs[2].returncode # 0) => orgs = ExplicitOrgs(argv)
    /\ pc = "fetch_notifications" => exc = None
    /\ Len(requests) = 2 =>
           /\ open_prs_query = "state:open author:@me is:pr" \o OrgQualifiers(ClaimedOrgs)
           /\ assigned_query = "state:open assignee:@me" \o OrgQualifiers(ClaimedOrgs)
           /\ requests[2].request.json.query
                  = "query { user: viewer { databaseId } open_prs: "
                        \o "search(first: 100, type: ISSUE, query: \""
                        \o open_prs_query \o "\") assigned: "
                        \o "search(first: 100, type: ISSUE, query: \""
                        \o assigned_query \o "\") }"
    /\ NotificationsPrinted =>
           Len(stdout[1].rows)
               = Cardinality(KeptNotifications({ClaimedOrgs[i] : i \in 1..Len(ClaimedOrgs)}))

\* C9's case: --auto-org beside --org acme, the helper fails, and the run
\* goes to its end with the filter acme alone
C9_Witness ==
    /\ pc = "done"
    /\ AutoOrgGiven(argv)
    /\ Len(procs) = 2
    /\ procs[2].returncode # 0
    /\ orgs = <<"acme">>
    /\ open_prs_query = "state:open author:@me is:pr org:acme"

\* C10: the link of a notification row is the web address of its subject:
\* https://github.com/<owner>/<repo>/pull/<n> for a pull request and
\* .../issues/<n> for an issue, owner and repository name as they are,
\* followed by ?notification_referrer_id=NT_<token>.
C10_UrlComponentsKept ==
    NotificationsPrinted =>
        LET n == ReceivedNotifications[1]
            owner == n.repository.owner.login
            repo == n.repository.name
            row == stdout[1].rows[1]
        IN  \E kind \in {"pulls", "issues"}, num \in 1..MaxNumber :
                /\ n.subject.url = "https://api.github.com/repos/" \o owner \o "/"
                                       \o repo \o "/" \o kind \o "/" \o IntStr(num)
                /\ row.Title.link
                       = "https://github.com/" \o owner \o "/" \o repo \o "/"
                             \o (IF kind = "pulls" THEN "pull" ELSE "issues")
                             \o "/" \o IntStr(num)
                             \o "?notification_referrer_id=NT_" \o row.Token

=============================================================================
